---- MODULE Spec2Model ----
(***************************************************************************)
(* Model of homeassistant/components/strava/__init__.py: the Strava        *)
(* account session (StravaData), its OAuth2 token lifecycle, the three     *)
(* throttled resource data holders and the authorization callback view.    *)
(*                                                                         *)
(* The orchestration layer is a single-threaded cooperative scheduler:     *)
(* a coroutine runs without interruption from one suspension point (an     *)
(* awaited executor job or storage read/write) to the next.  Every action  *)
(* below is one such uninterrupted stretch of code.                        *)
(***************************************************************************)
EXTENDS Integers, Sequences, FiniteSets, TLC

\* ---------------------------------------------------------------- bounds
MaxTime    == 12   \* the clock stops advancing here
MaxTasks   == 2    \* coroutines in flight at the same time
MaxTokens  == 1    \* tokens the provider issues (exchange + refresh)
MaxPrompts == 2    \* configurator requests created
MaxHolders == 2    \* holder objects created
MaxUpdates == 2    \* update() bodies executed

\* ------------------------------------------------------ program constants
MIN_TIME_BETWEEN_UPDATES == 10
SAFETY_MARGIN == 300

DOMAIN_KEY         == "strava"
AUTH_CALLBACK_PATH == "/api/strava"

\* inputs
TickSteps   == {5, 6}          \* amounts by which the clock advances
Lifetimes   == {400}           \* expires_at - now of a token the provider issues
StoredExp   == {-10, 5}        \* expires_at of a token persisted by an earlier run
Ids         == {1}             \* external resource ids
Codes       == {"CODE123"}     \* authorization codes the provider redirects with

\* the configuration the host passes to async_setup (CONFIG_SCHEMA)
HostConfig == [strava |-> [client_id |-> "abc", client_secret |-> "xyz"]]

\* Python None / a value:  <<>> / <<v>>
None    == <<>>
Some(v) == <<v>>

\* self._configurator: attribute deleted, None, or a request id > 0
CfgDeleted == -1
CfgNone    == 0

VARIABLES
  now,        \* datetime.now()
  store,      \* Token Store record: None or Some(token)
  nextTok,    \* id of the next token the provider issues
  created,    \* StravaData constructed by async_setup
  views,      \* views registered with hass.http (one per StravaData.__init__)
  hassData,   \* hass.data[DOMAIN]: 0 = unset, 1 = the session
  token,      \* self._token
  access,     \* self.client.access_token as assigned by this module
  cfg,        \* self._configurator
  prompts,    \* configurator requests created and not yet done
  nprompts,   \* configurator requests created so far
  athletes,   \* self.athletes: id -> holder object
  gears,      \* self.gears
  clubs,      \* self.clubs
  holders,    \* holder objects, by object reference
  nupd,       \* update() bodies executed so far
  tasks,      \* coroutines in flight (a set: their order means nothing)
  ev          \* what the last step did (history)

vars == <<now, store, nextTok, created, views, hassData, token, access, cfg,
          prompts, nprompts, athletes, gears, clubs, holders, nupd, tasks, ev>>

\* ------------------------------------------------------------ data model
\* a Token {access_token, refresh_token, expires_at}; n identifies the issue
Token(n, exp) == [access_token |-> n, refresh_token |-> n, expires_at |-> exp]

\* dict.get(key): None when the key is absent
Get(d, k) == IF k \in DOMAIN d THEN Some(d[k]) ELSE None

\* cached fields of a holder (StravaAthleteData / StravaGearData / StravaClubData)
Fields(kind) ==
  IF kind = "athlete" THEN {"last_activity", "details", "stats"}
  ELSE IF kind = "gear" THEN {"gear"} ELSE {"club"}

\* a reference to a holder object: <<kind, id, n>> is the n-th object
\* constructed for that kind and id
Ref(kind, id) ==
  <<kind, id, 1 + Cardinality({o \in DOMAIN holders : o[1] = kind /\ o[2] = id})>>

\* holder constructor: every cached field is None (0)
NewHolder(kind) ==
  [cache |-> [f \in Fields(kind) |-> 0],
   last |-> None,      \* the throttle's last-invoked timestamp
   ran  |-> None,      \* history: time of the last call that ran the body
   nran |-> 0]         \* history: calls that ran the body

\* what get_token() did in a coroutine (history)
Gt0 == [load |-> 0, read |-> None, chk |-> None, at |-> 0, nref |-> 0, nprompt |-> 0, got |-> None]

\* a coroutine: op is the entry point, pc the await it is suspended on
Task0 == [op |-> "", h |-> <<>>, seq |-> 0, pc |-> "", arg |-> None, cf |-> 0,
          code |-> "", sub |-> <<>>, res |-> "", gt |-> Gt0]

Ev0 == [op |-> "", h |-> <<>>, seq |-> 0, end |-> "", got |-> None, gt |-> Gt0]

\* ------------------------------------------------------- StravaData props
is_authorized == token # None

\* datetime.now() + 300: datetime.__add__ takes a timedelta only, so adding
\* an int raises TypeError (None here); a timedelta would give Some(d + n).
DatetimePlusInt(d, n) == None

\* the is_token_valid property: "True", "False", or the exception it raises
is_token_valid ==
  IF ~is_authorized THEN "False"
  ELSE LET limit == DatetimePlusInt(now, SAFETY_MARGIN) IN
       IF limit = None THEN "TypeError"
       ELSE IF token[1].expires_at > limit[1] THEN "True" ELSE "False"

NeedsRefresh_margin(tk) == tk.expires_at < now + SAFETY_MARGIN

\* line 139: expires_at < datetime.now()
NeedsRefresh(tk) == tk.expires_at < now

\* Throttle(MIN_TIME_BETWEEN_UPDATES): a call is suppressed unless the body
\* never ran on this holder or more than the interval has passed since it
\* was last invoked
Throttled(h) ==
  /\ holders[h].last # None
  /\ ~(now - holders[h].last[1] > MIN_TIME_BETWEEN_UPDATES)

\* ------------------------------------------------------------- get_token
\* the caller of get_token() continues after it returned:
\* async_setup registers the session (lines 52-54), update() issues its
\* fetch or fan-out (lines 344-348, 380-381, 413-414).  r is the coroutine
\* as it is, q as it becomes (tasks' replaces r by q, or drops r when q is
\* finished).
Resume(r, q) ==
  IF q.op = "setup"
    THEN /\ hassData' = 1
         /\ tasks' = tasks \ {r}
         /\ ev' = [Ev0 EXCEPT !.op = "setup_end", !.end = "ok", !.gt = q.gt]
    ELSE /\ hassData' = hassData
         /\ tasks' = (tasks \ {r}) \cup
               {[q EXCEPT !.pc = "fetch", !.arg = None,
                          !.sub = [f \in Fields(q.h[1]) |-> "pending"]]}
         /\ ev' = Ev0

\* lines 138-140 with self._token = tk: when it has expired refresh_token()
\* is entered and suspends on the executor job, which was handed tk's
\* refresh_token
GetTokenTail(r, q, tk) ==
  LET g == [q.gt EXCEPT !.chk = Some(tk), !.at = now] IN
  IF NeedsRefresh(tk)
    THEN /\ hassData' = hassData
         /\ tasks' = (tasks \ {r}) \cup
               {[q EXCEPT !.pc = "refresh", !.arg = Some(tk),
                          !.gt = [g EXCEPT !.nref = @ + 1]]}
         /\ ev' = Ev0
    ELSE Resume(r, [q EXCEPT !.gt = g])

\* lines 126-129: an unauthorized session suspends on store.async_load()
GetTokenEntry(r, q) ==
  IF ~is_authorized
    THEN /\ hassData' = hassData
         /\ tasks' = (tasks \ {r}) \cup
               {[q EXCEPT !.pc = "load", !.arg = None, !.gt.load = 1]}
         /\ ev' = Ev0
    ELSE GetTokenTail(r, q, token[1])

\* ----------------------------------------------------------------- Init
Init ==
  /\ now = 0
  /\ store \in {None} \cup {Some(Token(1, e)) : e \in StoredExp}
  /\ nextTok = 2
  /\ created = FALSE
  /\ views = 0
  /\ hassData = 0
  /\ token = None
  /\ access = 0
  /\ cfg = CfgNone
  /\ prompts = {}
  /\ nprompts = 0
  /\ athletes = <<>>
  /\ gears = <<>>
  /\ clubs = <<>>
  /\ holders = <<>>
  /\ nupd = 0
  /\ tasks = {}
  /\ ev = Ev0

\* -------------------------------------------------------------- actions
Tick ==
  /\ \E d \in TickSteps :
       /\ now + d <= MaxTime
       /\ now' = now + d
  /\ ev' = Ev0
  /\ UNCHANGED <<store, nextTok, created, views, hassData, token, access, cfg,
                 prompts, nprompts, athletes, gears, clubs, holders, nupd, tasks>>

\* async_setup(hass, config) called by the host: StravaData(hass,
\* config.get(DOMAIN)) is constructed (lines 69-85), and as a new session
\* is never authorized, get_token() is entered and suspends on the load
async_setup ==
  /\ ~created
  /\ Get(HostConfig, DOMAIN_KEY) # None
  /\ created' = TRUE
  /\ views' = views + 1
  /\ token' = None
  /\ cfg' = CfgNone
  /\ athletes' = <<>> /\ gears' = <<>> /\ clubs' = <<>>
  /\ hassData' = hassData
  /\ tasks' = tasks \cup {[Task0 EXCEPT !.op = "setup", !.pc = "load", !.gt.load = 1]}
  /\ ev' = Ev0
  /\ UNCHANGED <<now, store, nextTok, access, prompts, nprompts, holders, nupd>>

\* self._config: the section config.get(DOMAIN) that __init__ was given
SessionConfig == Get(HostConfig, DOMAIN_KEY)[1]

authorize_url_secret ==
  [client_id |-> SessionConfig.client_secret, redirect_uri |-> AUTH_CALLBACK_PATH]

\* client.authorization_url(client_id=..., redirect_uri=...), lines 179-183
authorize_url ==
  [client_id |-> SessionConfig.client_id, redirect_uri |-> AUTH_CALLBACK_PATH]

\* the executor thread reads the store while get_token() is suspended
LoadRead(r) ==
  /\ r.pc = "load"
  /\ tasks' = (tasks \ {r}) \cup {[r EXCEPT !.pc = "loaded", !.arg = store]}
  /\ ev' = Ev0
  /\ UNCHANGED <<now, store, nextTok, created, views, hassData, token, access,
                 cfg, prompts, nprompts, athletes, gears, clubs, holders, nupd>>

LoadResume_no_install(r) ==
  /\ r.pc = "loaded"
  /\ token' = r.arg
  /\ IF r.arg # None
       THEN /\ access' = access
            /\ GetTokenTail(r, [r EXCEPT !.gt.read = r.arg], r.arg[1])
            /\ UNCHANGED <<cfg, prompts, nprompts>>
       ELSE /\ nprompts < MaxPrompts
            /\ nprompts' = nprompts + 1
            /\ prompts' = prompts \cup
                 {[id |-> nprompts + 1, link_url |-> authorize_url]}
            /\ cfg' = nprompts + 1
            /\ access' = access
            /\ Resume(r, [r EXCEPT !.gt.nprompt = @ + 1])
  /\ UNCHANGED <<now, store, nextTok, created, views, athletes, gears, clubs,
                 holders, nupd>>

LoadResume_skips(r) ==
  /\ r.pc = "loaded"
  /\ token' = r.arg
  /\ IF r.arg # None
       THEN /\ access' = r.arg[1].access_token
            /\ GetTokenTail(r, [r EXCEPT !.gt.read = r.arg], r.arg[1])
            /\ UNCHANGED <<cfg, prompts, nprompts>>
       ELSE /\ nprompts < MaxPrompts
            /\ nprompts' = nprompts + 1
            /\ prompts' = prompts \cup
                 {[id |-> nprompts + 1, link_url |-> authorize_url]}
            /\ cfg' = nprompts + 1
            /\ access' = access
            /\ IF r.op = "update"
                 THEN /\ tasks' = tasks \ {r}
                      /\ hassData' = hassData
                      /\ ev' = Ev0
                 ELSE Resume(r, [r EXCEPT !.gt.nprompt = @ + 1])
  /\ UNCHANGED <<now, store, nextTok, created, views, athletes, gears, clubs,
                 holders, nupd>>

\* get_token() resumes from store.async_load(), lines 129-140; with no
\* stored token it calls request_token() (lines 171-191) and returns
LoadResume(r) ==
  /\ r.pc = "loaded"
  /\ token' = r.arg
  /\ IF r.arg # None
       THEN /\ access' = r.arg[1].access_token
            /\ GetTokenTail(r, [r EXCEPT !.gt.read = r.arg], r.arg[1])
            /\ UNCHANGED <<cfg, prompts, nprompts>>
       ELSE /\ nprompts < MaxPrompts
            /\ nprompts' = nprompts + 1
            /\ prompts' = prompts \cup
                 {[id |-> nprompts + 1, link_url |-> authorize_url]}
            /\ cfg' = nprompts + 1
            /\ access' = access
            /\ Resume(r, [r EXCEPT !.gt.nprompt = @ + 1])
  /\ UNCHANGED <<now, store, nextTok, created, views, athletes, gears, clubs,
                 holders, nupd>>

RefreshDone_swallows(r, ok) ==
  /\ r.pc = "refresh"
  /\ IF ok
       THEN /\ nextTok <= MaxTokens + 1
            /\ \E life \in Lifetimes :
                 LET t == Token(nextTok, now + life) IN
                   /\ token' = Some(t)
                   /\ tasks' = (tasks \ {r}) \cup
                        {[r EXCEPT !.pc = "save", !.arg = Some(t), !.gt.got = Some(t)]}
            /\ nextTok' = nextTok + 1
            /\ ev' = Ev0
            /\ hassData' = hassData
       ELSE /\ Resume(r, r)
            /\ UNCHANGED <<token, nextTok>>
  /\ UNCHANGED <<now, store, created, views, access, cfg, prompts,
                 nprompts, athletes, gears, clubs, holders, nupd>>

\* refresh_token() resumes from client.refresh_access_token, lines 201-208:
\* on success the new token is held and store.async_save is awaited;
\* a failure propagates out of get_token() and its caller
RefreshDone(r, ok) ==
  /\ r.pc = "refresh"
  /\ IF ok
       THEN /\ nextTok <= MaxTokens + 1
            /\ \E life \in Lifetimes :
                 LET t == Token(nextTok, now + life) IN
                   /\ token' = Some(t)
                   /\ tasks' = (tasks \ {r}) \cup
                        {[r EXCEPT !.pc = "save", !.arg = Some(t), !.gt.got = Some(t)]}
            /\ nextTok' = nextTok + 1
            /\ ev' = Ev0
       ELSE /\ tasks' = tasks \ {r}
            /\ ev' = [Ev0 EXCEPT !.op = IF r.op = "setup" THEN "setup_end" ELSE "update_end",
                        !.h = r.h, !.seq = r.seq, !.end = "refresh failed", !.gt = r.gt]
            /\ UNCHANGED <<token, nextTok>>
  /\ UNCHANGED <<now, store, created, views, hassData, access, cfg, prompts,
                 nprompts, athletes, gears, clubs, holders, nupd>>

\* refresh_token() resumes from store.async_save (line 208) and returns,
\* and so does get_token()
SaveDone(r) ==
  /\ r.pc = "save"
  /\ store' = r.arg
  /\ Resume(r, r)
  /\ UNCHANGED <<now, nextTok, created, views, token, access, cfg, prompts,
                 nprompts, athletes, gears, clubs, holders, nupd>>

\* ---------------------------------------------------------------- holders
\* get_athlete / get_gear / get_club, lines 210-250: the holder returned is
\* the registry's entry for id, after one was constructed and registered if
\* the id was not in the registry
get_athlete_always_new(id) ==
  /\ hassData = 1
  /\ Cardinality(DOMAIN holders) < MaxHolders
  /\ holders' = holders @@ (Ref("athlete", id) :> NewHolder("athlete"))
  /\ athletes' = [k \in DOMAIN athletes \cup {id} |->
                    IF k = id THEN Ref("athlete", id) ELSE athletes[k]]
  /\ ev' = Ev0
  /\ UNCHANGED <<now, store, nextTok, created, views, hassData, token, access,
                 cfg, prompts, nprompts, gears, clubs, nupd, tasks>>

get_athlete(id) ==
  /\ hassData = 1
  /\ IF id \notin DOMAIN athletes
       THEN /\ Cardinality(DOMAIN holders) < MaxHolders
            /\ holders' = holders @@ (Ref("athlete", id) :> NewHolder("athlete"))
            /\ athletes' = athletes @@ (id :> Ref("athlete", id))
            /\ ev' = Ev0
       ELSE UNCHANGED <<holders, athletes, ev>>
  /\ UNCHANGED <<now, store, nextTok, created, views, hassData, token, access,
                 cfg, prompts, nprompts, gears, clubs, nupd, tasks>>

get_gear(id) ==
  /\ hassData = 1
  /\ IF id \notin DOMAIN gears
       THEN /\ Cardinality(DOMAIN holders) < MaxHolders
            /\ holders' = holders @@ (Ref("gear", id) :> NewHolder("gear"))
            /\ gears' = gears @@ (id :> Ref("gear", id))
            /\ ev' = Ev0
       ELSE UNCHANGED <<holders, gears, ev>>
  /\ UNCHANGED <<now, store, nextTok, created, views, hassData, token, access,
                 cfg, prompts, nprompts, athletes, clubs, nupd, tasks>>

get_club(id) ==
  /\ hassData = 1
  /\ IF id \notin DOMAIN clubs
       THEN /\ Cardinality(DOMAIN holders) < MaxHolders
            /\ holders' = holders @@ (Ref("club", id) :> NewHolder("club"))
            /\ clubs' = clubs @@ (id :> Ref("club", id))
            /\ ev' = Ev0
       ELSE UNCHANGED <<holders, clubs, ev>>
  /\ UNCHANGED <<now, store, nextTok, created, views, hassData, token, access,
                 cfg, prompts, nprompts, athletes, gears, nupd, tasks>>

update_shared_throttle(h) ==
  /\ h \in DOMAIN holders
  /\ IF Throttled(h)
       THEN UNCHANGED <<holders, nupd, tasks, hassData, ev>>
       ELSE /\ nupd < MaxUpdates
            /\ Cardinality(tasks) < MaxTasks
            /\ holders' = [g \in DOMAIN holders |->
                 IF g = h THEN [holders[g] EXCEPT !.last = Some(now),
                                                  !.ran = Some(now), !.nran = @ + 1]
                          ELSE [holders[g] EXCEPT !.last = Some(now)]]
            /\ nupd' = nupd + 1
            /\ LET q == [Task0 EXCEPT !.op = "update", !.h = h, !.seq = nupd + 1] IN
                 GetTokenEntry(q, q)
  /\ UNCHANGED <<now, store, nextTok, created, views, token, access, cfg,
                 prompts, nprompts, athletes, gears, clubs>>

update_unthrottled(h) ==
  /\ h \in DOMAIN holders
  /\ nupd < MaxUpdates
  /\ Cardinality(tasks) < MaxTasks
  /\ holders' = [holders EXCEPT ![h].last = Some(now),
                                ![h].ran = Some(now), ![h].nran = @ + 1]
  /\ nupd' = nupd + 1
  /\ LET q == [Task0 EXCEPT !.op = "update", !.h = h, !.seq = nupd + 1] IN
       GetTokenEntry(q, q)
  /\ UNCHANGED <<now, store, nextTok, created, views, token, access, cfg,
                 prompts, nprompts, athletes, gears, clubs>>

\* holder.update(hass), lines 337-348, 377-381, 410-414: the Throttle
\* wrapper, then the body up to its first suspension point.  A suppressed
\* call changes nothing.
update(h) ==
  /\ h \in DOMAIN holders
  /\ IF Throttled(h)
       THEN UNCHANGED <<holders, nupd, tasks, hassData, ev>>
       ELSE /\ nupd < MaxUpdates
            /\ Cardinality(tasks) < MaxTasks
            /\ holders' = [holders EXCEPT ![h].last = Some(now),
                                          ![h].ran = Some(now), ![h].nran = @ + 1]
            /\ nupd' = nupd + 1
            /\ LET q == [Task0 EXCEPT !.op = "update", !.h = h, !.seq = nupd + 1] IN
                 GetTokenEntry(q, q)
  /\ UNCHANGED <<now, store, nextTok, created, views, token, access, cfg,
                 prompts, nprompts, athletes, gears, clubs>>

FetchDone_clears(r, ok) ==
  /\ r.pc = "fetch"
  /\ r.h[1] # "athlete"
  /\ holders' = [holders EXCEPT ![r.h].cache[r.h[1]] = IF ok THEN r.seq ELSE 0]
  /\ tasks' = tasks \ {r}
  /\ ev' = [Ev0 EXCEPT !.op = "update_end", !.h = r.h, !.seq = r.seq, !.gt = r.gt,
              !.end = IF ok THEN "ok" ELSE "fetch failed"]
  /\ UNCHANGED <<now, store, nextTok, created, views, hassData, token, access,
                 cfg, prompts, nprompts, athletes, gears, clubs, nupd>>

\* gear / club update() resumes from its executor job, lines 380-381 and
\* 413-414: the payload is assigned only if the job returned
FetchDone(r, ok) ==
  /\ r.pc = "fetch"
  /\ r.h[1] # "athlete"
  /\ holders' = IF ok THEN [holders EXCEPT ![r.h].cache[r.h[1]] = r.seq]
                      ELSE holders
  /\ tasks' = tasks \ {r}
  /\ ev' = [Ev0 EXCEPT !.op = "update_end", !.h = r.h, !.seq = r.seq, !.gt = r.gt,
              !.end = IF ok THEN "ok" ELSE "fetch failed"]
  /\ UNCHANGED <<now, store, nextTok, created, views, hassData, token, access,
                 cfg, prompts, nprompts, athletes, gears, clubs, nupd>>

\* one of update_last_actitivity / update_details / update_stats resumes
\* from its executor job (lines 296, 310, 324) and assigns its own field if
\* the job returned.  asyncio.gather (lines 344-348) resolves update() at
\* the first failure, or when all three have returned; it does not cancel
\* the others, which run on.
AthleteFetchDone(r, f, ok) ==
  /\ r.pc = "fetch"
  /\ r.h[1] = "athlete"
  /\ r.sub[f] = "pending"
  /\ LET sub == [r.sub EXCEPT ![f] = IF ok THEN "ok" ELSE "fail"]
         res == IF r.res # "" THEN r.res
                ELSE IF ~ok THEN "fetch failed"
                ELSE IF \A g \in DOMAIN sub : sub[g] = "ok" THEN "ok" ELSE "" IN
       /\ holders' = IF ok THEN [holders EXCEPT ![r.h].cache[f] = r.seq]
                           ELSE holders
       /\ tasks' = (tasks \ {r}) \cup
             (IF \A g \in DOMAIN sub : sub[g] # "pending" THEN {}
              ELSE {[r EXCEPT !.sub = sub, !.res = res]})
       /\ ev' = IF r.res = "" /\ res # ""
                  THEN [Ev0 EXCEPT !.op = "update_end", !.h = r.h, !.seq = r.seq,
                                   !.gt = r.gt, !.end = res]
                  ELSE Ev0
  /\ UNCHANGED <<now, store, nextTok, created, views, hassData, token, access,
                 cfg, prompts, nprompts, athletes, gears, clubs, nupd>>

\* ---------------------------------------------------------------- authorize
\* line 169, `await async_setup(hass, self._config)`: self._config is
\* already the DOMAIN section, so config.get(DOMAIN) (line 47) is None and
\* StravaData.__init__ registers one more view (line 78) and then raises
\* AttributeError on config.get(CONF_CLIENT_ID) (line 80); line 52 is not
\* reached and hass.data[DOMAIN] keeps the session it had.
ReSetupRaises == Get(SessionConfig, DOMAIN_KEY) = None

Callback_wrong_code(code) ==
  /\ views >= 1
  /\ Cardinality(tasks) < MaxTasks
  /\ LET q == [Task0 EXCEPT !.op = "authorize", !.pc = "exchange", !.code = "code"] IN
       /\ q \notin tasks
       /\ tasks' = tasks \cup {q}
  /\ ev' = Ev0
  /\ UNCHANGED <<now, store, nextTok, created, views, hassData, token, access,
                 cfg, prompts, nprompts, athletes, gears, clubs, holders, nupd>>

\* StravaAuthCallbackView.get, lines 443-447, enters authorize(code, hass),
\* which suspends on client.exchange_code_for_token (lines 152-157)
Callback(code) ==
  /\ views >= 1
  /\ Cardinality(tasks) < MaxTasks
  /\ LET q == [Task0 EXCEPT !.op = "authorize", !.pc = "exchange", !.code = code] IN
       /\ q \notin tasks
       /\ tasks' = tasks \cup {q}
  /\ ev' = Ev0
  /\ UNCHANGED <<now, store, nextTok, created, views, hassData, token, access,
                 cfg, prompts, nprompts, athletes, gears, clubs, holders, nupd>>

\* authorize() resumes from the exchange (line 152) and awaits
\* store.async_save(self._token) (lines 159-160)
ExchangeDone(r, ok) ==
  /\ r.pc = "exchange"
  /\ IF ok
       THEN /\ nextTok <= MaxTokens + 1
            /\ \E life \in Lifetimes :
                 LET t == Token(nextTok, now + life) IN
                   /\ token' = Some(t)
                   /\ tasks' = (tasks \ {r}) \cup
                        {[r EXCEPT !.pc = "asave", !.arg = Some(t)]}
            /\ nextTok' = nextTok + 1
            /\ ev' = Ev0
       ELSE /\ tasks' = tasks \ {r}
            /\ ev' = [Ev0 EXCEPT !.op = "authorize_end", !.end = "exchange failed"]
            /\ UNCHANGED <<token, nextTok>>
  /\ UNCHANGED <<now, store, created, views, hassData, access, cfg, prompts,
                 nprompts, athletes, gears, clubs, holders, nupd>>

\* authorize() resumes from store.async_save (line 160); lines 162-166:
\* if authorized, self._configurator is read and request_done is awaited
AuthSaveDone(r) ==
  /\ r.pc = "asave"
  /\ store' = r.arg
  /\ IF is_authorized
       THEN IF cfg = CfgDeleted
              THEN /\ tasks' = tasks \ {r}
                   /\ ev' = [Ev0 EXCEPT !.op = "authorize_end", !.got = r.arg,
                               !.end = "AttributeError"]
                   /\ views' = views
              ELSE /\ tasks' = (tasks \ {r}) \cup
                         {[r EXCEPT !.pc = "request_done", !.cf = cfg]}
                   /\ ev' = Ev0
                   /\ views' = views
       ELSE /\ ReSetupRaises
            /\ views' = views + 1
            /\ tasks' = tasks \ {r}
            /\ ev' = [Ev0 EXCEPT !.op = "authorize_end", !.got = r.arg,
                        !.end = "AttributeError"]
  /\ UNCHANGED <<now, nextTok, created, hassData, token, access, cfg, prompts,
                 nprompts, athletes, gears, clubs, holders, nupd>>

\* authorize() resumes from configurator.request_done (line 163), deletes
\* self._configurator (line 167) and re-runs async_setup (line 169)
RequestDoneDone(r) ==
  /\ r.pc = "request_done"
  /\ prompts' = {p \in prompts : p.id # r.cf}
  /\ tasks' = tasks \ {r}
  /\ ev' = [Ev0 EXCEPT !.op = "authorize_end", !.got = r.arg, !.end = "AttributeError"]
  /\ IF cfg = CfgDeleted
       THEN UNCHANGED <<cfg, views>>
       ELSE /\ cfg' = CfgDeleted
            /\ ReSetupRaises
            /\ views' = views + 1
  /\ UNCHANGED <<now, store, nextTok, created, hassData, token, access,
                 nprompts, athletes, gears, clubs, holders, nupd>>

\* ------------------------------------------------------------ specification
Next ==
  \/ Tick
  \/ async_setup
  \/ \E r \in tasks : LoadRead(r)
  \/ \E r \in tasks : LoadResume(r)
  \/ \E r \in tasks, ok \in BOOLEAN : RefreshDone(r, ok)
  \/ \E r \in tasks : SaveDone(r)
  \/ \E id \in Ids : get_athlete(id)
  \/ \E id \in Ids : get_gear(id)
  \/ \E id \in Ids : get_club(id)
  \/ \E h \in DOMAIN holders : update(h)
  \/ \E r \in tasks, ok \in BOOLEAN : FetchDone(r, ok)
  \/ \E r \in tasks, f \in Fields("athlete"), ok \in BOOLEAN : AthleteFetchDone(r, f, ok)
  \/ \E c \in Codes : Callback(c)
  \/ \E r \in tasks, ok \in BOOLEAN : ExchangeDone(r, ok)
  \/ \E r \in tasks : AuthSaveDone(r)
  \/ \E r \in tasks : RequestDoneDone(r)

Spec == Init /\ [][Next]_vars

\* a suspended coroutine resumes when what it awaits is done
Resumes ==
  \/ \E r \in tasks : LoadRead(r)
  \/ \E r \in tasks : LoadResume(r)
  \/ \E r \in tasks, ok \in BOOLEAN : RefreshDone(r, ok)
  \/ \E r \in tasks : SaveDone(r)
  \/ \E r \in tasks, ok \in BOOLEAN : FetchDone(r, ok)
  \/ \E r \in tasks, f \in Fields("athlete"), ok \in BOOLEAN : AthleteFetchDone(r, f, ok)
  \/ \E r \in tasks, ok \in BOOLEAN : ExchangeDone(r, ok)
  \/ \E r \in tasks : AuthSaveDone(r)
  \/ \E r \in tasks : RequestDoneDone(r)

\* the event loop and the executor run every job they were handed: no
\* coroutine stays suspended forever on a job that can complete
FairSpec == Spec /\ WF_vars(Resumes)

TypeOK ==
  /\ now \in 0..MaxTime
  /\ hassData \in {0, 1}
  /\ cfg \in -1..MaxPrompts
  /\ Cardinality(DOMAIN holders) <= MaxHolders
  /\ Cardinality(tasks) <= MaxTasks
  /\ \A r \in tasks : r.op \in {"setup", "update", "authorize"}

\* ------------------------------------------------------------------ claims
\* the coroutine of tasks that q of tasks' continues
Was(q) == {r \in tasks : r.op = q.op /\ r.seq = q.seq /\ r.code = q.code}

\* C1: on one holder, a call of update() that runs the body comes at least
\* MIN_TIME_BETWEEN_UPDATES after the previous call that ran it, so of two
\* calls less than 10 seconds apart at most one runs the body and its fetch;
\* a coroutine exists only for a call that ran the body.
C1_ThrottleWindow ==
  [][ /\ \A h \in DOMAIN holders :
           (holders'[h].nran # holders[h].nran /\ holders[h].ran # None)
             => now - holders[h].ran[1] >= MIN_TIME_BETWEEN_UPDATES
      /\ \A q \in tasks' :
           (q.op = "update" /\ Was(q) = {})
             => /\ holders'[q.h].nran = holders[q.h].nran + 1
                /\ \A h \in DOMAIN holders \ {q.h} : holders'[h].nran = holders[h].nran
    ]_vars

\* a second call is made 6 seconds after the first, which is still
\* suspended: the throttle suppresses it
C1_Witness ==
  \E h \in DOMAIN holders :
    /\ holders[h].nran = 1 /\ holders[h].ran = Some(0) /\ now = 6
    /\ Throttled(h)
    /\ \E r \in tasks : r.op = "update" /\ r.h = h /\ r.pc = "fetch"

\* C2: a get_token() that finds the held or loaded token expired calls
\* refresh_token() exactly once (and one that finds it not expired does not
\* call it), and the update() that called it issues its fetch only in the
\* step that resumes from saving the refreshed token, which is then the
\* store's record.
C2_RefreshOnceBeforeFetch ==
  [][ /\ \A q \in tasks' :
           /\ q.gt.nref <= 1
           /\ q.gt.chk # None =>
                q.gt.nref = (IF q.gt.chk[1].expires_at < q.gt.at THEN 1 ELSE 0)
           /\ (q.gt.nref = 1 /\ q.pc = "fetch" /\ \A r \in Was(q) : r.pc # "fetch")
                => /\ \E r \in Was(q) : r.pc = "save" /\ r.arg = q.gt.got
                   /\ store' = q.gt.got
           /\ (q.pc = "fetch" /\ q.gt.chk # None /\ q.gt.chk[1].expires_at < q.gt.at)
                => q.gt.got # None
      /\ (ev'.op \in {"setup_end", "update_end"} /\ ev'.gt.chk # None)
           => ev'.gt.nref = (IF ev'.gt.chk[1].expires_at < ev'.gt.at THEN 1 ELSE 0)
    ]_vars

\* an update() found the held token expired, refreshed it once, saved the
\* new token and has issued its fetch
C2_Witness ==
  \E r \in tasks :
    /\ r.op = "update" /\ r.pc = "fetch"
    /\ r.gt.load = 0 /\ r.gt.nref = 1
    /\ r.gt.chk # None /\ r.gt.chk[1].expires_at < r.gt.at
    /\ store = r.gt.got /\ token = r.gt.got

\* C3: when authorize() ends after its code exchange returned a token, the
\* session is authorized and the store's record is that token.
C3_AuthorizeStoresToken ==
  (ev.op = "authorize_end" /\ ev.got # None)
    => (is_authorized /\ store = ev.got)

\* C4: when an athlete update() ends, all three cached fields hold the
\* values this update fetched, or none of them does.
C4_AthleteAllOrNone ==
  (ev.op = "update_end" /\ ev.h[1] = "athlete")
    => \/ \A f \in Fields("athlete") : holders[ev.h].cache[f] = ev.seq
       \/ \A f \in Fields("athlete") : holders[ev.h].cache[f] # ev.seq

\* C5: an update() whose get_token() runs while a token is held that
\* expires more than SAFETY_MARGIN from now goes straight to its fetch, with
\* no load, refresh or authorization request, leaves the token as it is, and
\* is_token_valid is true afterwards.
C5_ValidTokenIsLeftAlone ==
  [][ \A q \in tasks' :
        (/\ q.op = "update" /\ Was(q) = {}
         /\ is_authorized
         /\ token[1].expires_at > now + SAFETY_MARGIN)
          => /\ q.pc = "fetch"
             /\ q.gt.load = 0 /\ q.gt.nref = 0 /\ q.gt.nprompt = 0
             /\ token' = token
             /\ is_token_valid' = "True"
    ]_vars

\* C6: is_token_valid is true exactly when a token is held that expires
\* more than SAFETY_MARGIN after now, and false (not an exception) otherwise.
C6_IsTokenValid ==
  is_token_valid =
    (IF is_authorized /\ token[1].expires_at > now + SAFETY_MARGIN
       THEN "True" ELSE "False")

\* C7: when setup has loaded no token from the store, it ends with the
\* session registered and unauthorized, request_token() called once, its
\* prompt outstanding with an authorization URL that carries the configured
\* client_id, and no refresh or fetch issued.
C7_SetupRequestsToken ==
  (ev.op = "setup_end" /\ ev.end = "ok" /\ ev.gt.load = 1 /\ ev.gt.read = None)
    => /\ ev.gt.nprompt = 1
       /\ hassData = 1
       /\ ~is_authorized
       /\ \E p \in prompts :
            /\ p.id = cfg
            /\ p.link_url.client_id = HostConfig[DOMAIN_KEY].client_id
            /\ p.link_url.redirect_uri = AUTH_CALLBACK_PATH
       /\ ev.gt.nref = 0 /\ ev.gt.got = None
       /\ nupd = 0 /\ \A r \in tasks : r.op # "update"

C7_Witness ==
  /\ ev.op = "setup_end" /\ ev.end = "ok" /\ ev.gt.read = None
  /\ store = None /\ hassData = 1 /\ Cardinality(prompts) = 1

\* C8: while the session is unauthorized and the store holds no token, at
\* most one configurator request is outstanding.
C8_OnePendingAuthorization ==
  (~is_authorized /\ store = None) => Cardinality(prompts) <= 1

\* C9: get_athlete / get_gear / get_club return the registry's holder for
\* the id, which exists; a registered holder is never replaced or removed,
\* one holder object is ever constructed per registry and id, and a step
\* that changes one registry leaves the other two alone.
C9_GetOrCreate ==
  [][ /\ \A id \in Ids :
           /\ get_athlete(id) => (id \in DOMAIN athletes' /\ athletes'[id] \in DOMAIN holders')
           /\ get_gear(id) => (id \in DOMAIN gears' /\ gears'[id] \in DOMAIN holders')
           /\ get_club(id) => (id \in DOMAIN clubs' /\ clubs'[id] \in DOMAIN holders')
      /\ \A id \in DOMAIN athletes : id \in DOMAIN athletes' /\ athletes'[id] = athletes[id]
      /\ \A id \in DOMAIN gears : id \in DOMAIN gears' /\ gears'[id] = gears[id]
      /\ \A id \in DOMAIN clubs : id \in DOMAIN clubs' /\ clubs'[id] = clubs[id]
      /\ DOMAIN holders \subseteq DOMAIN holders'
      /\ \A o \in DOMAIN holders' : o[3] = 1
      /\ \A id \in DOMAIN athletes' : athletes'[id] = <<"athlete", id, 1>>
      /\ \A id \in DOMAIN gears' : gears'[id] = <<"gear", id, 1>>
      /\ \A id \in DOMAIN clubs' : clubs'[id] = <<"club", id, 1>>
      /\ athletes' # athletes => (gears' = gears /\ clubs' = clubs)
      /\ gears' # gears => (athletes' = athletes /\ clubs' = clubs)
      /\ clubs' # clubs => (athletes' = athletes /\ gears' = gears)
    ]_vars

\* an athlete and a gear with the same id are registered, as two holders
C9_Witness ==
  /\ 1 \in DOMAIN athletes /\ 1 \in DOMAIN gears
  /\ athletes[1] # gears[1]
  /\ {athletes[1], gears[1]} = DOMAIN holders

\* C10: the cached payload of a gear or club holder changes only in the
\* step in which one of its update() calls resumes from a fetch that
\* returned, and then to the value fetched; an update() that ends in a
\* failure leaves it as it was.
C10_PayloadOnSuccessOnly ==
  [][ \A h \in DOMAIN holders :
        h[1] # "athlete" =>
          /\ holders'[h].cache # holders[h].cache
               => (ev'.op = "update_end" /\ ev'.h = h /\ ev'.end = "ok")
          /\ (ev'.op = "update_end" /\ ev'.h = h /\ ev'.end = "ok")
               => holders'[h].cache[h[1]] = ev'.seq
          /\ (ev'.op = "update_end" /\ ev'.h = h /\ ev'.end # "ok")
               => holders'[h].cache = holders[h].cache
    ]_vars

\* a holder's second update() failed in its fetch and the payload of the
\* first is still cached
C10_Witness ==
  /\ ev.op = "update_end" /\ ev.end = "fetch failed" /\ ev.seq = 2
  /\ ev.h[1] # "athlete"
  /\ holders[ev.h].cache[ev.h[1]] = 1

\* C11: when the refresh call of an update() fails, that update ends there
\* with the failure: it made exactly one refresh attempt, the step changes
\* neither the held token nor the store's record, and the update never
\* issues a fetch (a coroutine suspended in refresh_token() continues only
\* into saving a token the provider returned).
C11_RefreshFailurePropagates ==
  [][ /\ \A r \in tasks :
           (r.op = "update" /\ r.pc = "refresh" /\ r \notin tasks')
             => \/ \E q \in tasks' :
                     /\ r \in Was(q) /\ q.pc = "save"
                     /\ q.arg # None /\ token' = q.arg
                \/ /\ \A q \in tasks' : r \notin Was(q)
                   /\ ev'.op = "update_end" /\ ev'.end = "refresh failed"
                   /\ ev'.h = r.h /\ ev'.seq = r.seq
                   /\ ev'.gt.nref = 1
                   /\ token' = token /\ store' = store
                   /\ holders' = holders
      /\ (ev'.op = "update_end" /\ ev'.end = "refresh failed")
           => \E r \in tasks : r.op = "update" /\ r.seq = ev'.seq /\ r.pc = "refresh"
    ]_vars

\* an update() found the held token expired and its refresh failed: the
\* expired token is still held and still the store's record
C11_Witness ==
  /\ ev.op = "update_end" /\ ev.end = "refresh failed" /\ ev.gt.nref = 1
  /\ ev.gt.chk # None /\ token = ev.gt.chk /\ store = token
  /\ token[1].expires_at < now
  /\ \A r \in tasks : ~(r.op = "update" /\ r.seq = ev.seq)

\* C12: a GET on the callback view with query parameter code = c starts
\* exactly one authorize() coroutine, which carries the code c and is
\* suspended on the code exchange; the request changes nothing else (the
\* view keeps no state), and an authorize() coroutine starts in no other way.
C12_CallbackAuthorizesOnce ==
  [][ /\ \A c \in Codes :
           Callback(c)
             => /\ \E q \in tasks' :
                     /\ q \notin tasks /\ tasks' = tasks \cup {q}
                     /\ q.op = "authorize" /\ q.code = c /\ q.pc = "exchange"
                /\ Cardinality({q \in tasks' : q.op = "authorize"})
                     = Cardinality({q \in tasks : q.op = "authorize"}) + 1
                /\ UNCHANGED <<now, store, nextTok, created, views, hassData, token,
                               access, cfg, prompts, nprompts, athletes, gears,
                               clubs, holders, nupd>>
      /\ \A q \in tasks' :
           (q.op = "authorize" /\ Was(q) = {})
             => /\ q.code \in Codes /\ Callback(q.code)
                /\ q.pc = "exchange"
    ]_vars

\* the request GET /api/strava?code=CODE123 has been received on an
\* unauthorized session: authorize("CODE123") is suspended on the exchange
C12_Witness ==
  /\ hassData = 1 /\ ~is_authorized /\ views = 1
  /\ \E q \in tasks : q.op = "authorize" /\ q.code = "CODE123" /\ q.pc = "exchange"
  /\ Cardinality({q \in tasks : q.op = "authorize"}) = 1

\* C13: once a session is registered with the host it stays registered, a
\* holder returned for an id is still the registry's holder for that id
\* after any step, and the setup re-run that ends an authorize() whose
\* exchange returned a token is an idempotent re-initialization: it
\* completes, registers nothing a second time, and loses no token and no
\* holder.
C13_SessionLivesOn ==
  [][ /\ hassData = 1 => hassData' = 1
      /\ \A id \in DOMAIN athletes : id \in DOMAIN athletes' /\ athletes'[id] = athletes[id]
      /\ \A id \in DOMAIN gears : id \in DOMAIN gears' /\ gears'[id] = gears[id]
      /\ \A id \in DOMAIN clubs : id \in DOMAIN clubs' /\ clubs'[id] = clubs[id]
      /\ (hassData = 1 /\ ev'.op = "authorize_end" /\ ev'.got # None)
           => /\ ev'.end = "ok"
              /\ views' = views
              /\ token' = token
              /\ holders' = holders
    ]_vars

\* C14: an authorize() whose code exchange returned a token runs to its
\* end without an exception, and when it has ended no configurator request
\* is outstanding.
C14_AuthorizeCompletes ==
  (ev.op = "authorize_end" /\ ev.got # None)
    => (ev.end = "ok" /\ prompts = {})

\* C15: update() calls on different holders never have two refresh_token()
\* calls in flight at the same time, and so never hand the same refresh
\* token to the provider twice.
C15_OneRefreshInFlight ==
  \A r, q \in tasks :
    (r.op = "update" /\ q.op = "update" /\ r.h # q.h)
      => ~(r.pc = "refresh" /\ q.pc = "refresh")

\* C16: an update() issues its fetch only in the step in which its
\* get_token() returns (at once with a held, unexpired token; on resuming
\* from the load with an unexpired token or with none; on resuming from the
\* save of a refreshed token), and in every such step it does issue the
\* fetch, also when get_token() returned with the session unauthorized.
C16_FetchFollowsGetToken ==
  [][ /\ \A q \in tasks' :
           (q.op = "update" /\ q.pc = "fetch" /\ \A r \in Was(q) : r.pc # "fetch")
             => \/ /\ Was(q) = {}
                   /\ is_authorized /\ ~(token[1].expires_at < now)
                \/ \E r \in Was(q) : r.pc = "save"
                \/ \E r \in Was(q) :
                     /\ r.pc = "loaded"
                     /\ (r.arg = None \/ ~(r.arg[1].expires_at < now))
      /\ \A r \in tasks :
           (/\ r.op = "update" /\ r \notin tasks'
            /\ \/ r.pc = "save"
               \/ r.pc = "loaded" /\ (r.arg = None \/ ~(r.arg[1].expires_at < now)))
             => \E q \in tasks' :
                  /\ r \in Was(q) /\ q.pc = "fetch"
                  /\ \A f \in Fields(q.h[1]) : q.sub[f] = "pending"
      /\ \A q \in tasks' :
           (/\ q.op = "update" /\ Was(q) = {}
            /\ is_authorized /\ ~(token[1].expires_at < now))
             => q.pc = "fetch"
    ]_vars

\* an update() on an unauthorized session with an empty store: get_token()
\* requested authorization and returned, and the fetch has been issued
\* although no token is held
C16_Witness ==
  \E q \in tasks :
    /\ q.op = "update" /\ q.pc = "fetch"
    /\ q.gt.load = 1 /\ q.gt.read = None /\ q.gt.nprompt = 1
    /\ ~is_authorized /\ store = None

\* C17: when a get_token() that found the session unauthorized resumes
\* from a load that read a token, that token becomes the held token
\* (is_authorized is true), its access_token becomes the client's access
\* token, no configurator request is created, and refresh_token() is
\* entered, once, exactly when the loaded token's expires_at is before now:
\* a token inside the 300 second margin but not yet expired is not
\* refreshed.
C17_LoadInstallsToken ==
  [][ \A r \in tasks :
        (r.pc = "loaded" /\ r.arg # None /\ r \notin tasks')
          => /\ token' = r.arg
             /\ is_authorized'
             /\ access' = r.arg[1].access_token
             /\ prompts' = prompts /\ nprompts' = nprompts /\ cfg' = cfg
             /\ (r.arg[1].expires_at < now)
                  <=> \E q \in tasks' :
                        /\ r \in Was(q) /\ q.pc = "refresh"
                        /\ q.gt.nref = 1 /\ q.arg = r.arg
             /\ ~(r.arg[1].expires_at < now)
                  => /\ \A q \in tasks' : r \in Was(q) => (q.pc = "fetch" /\ q.gt.nref = 0)
                     /\ r.op = "setup" => (ev'.op = "setup_end" /\ ev'.gt.nref = 0)
    ]_vars

\* setup loaded a token that expires in 5 seconds: it is installed and,
\* being inside the margin but not expired, it was not refreshed
C17_Witness ==
  /\ ev.op = "setup_end" /\ ev.end = "ok"
  /\ ev.gt.load = 1 /\ ev.gt.read = token /\ ev.gt.nref = 0 /\ ev.gt.nprompt = 0
  /\ is_authorized /\ access = token[1].access_token /\ prompts = {}
  /\ token[1].expires_at >= now
  /\ token[1].expires_at < now + SAFETY_MARGIN

\* C18: whenever no authorize() and no refresh_token() is in progress, a
\* held token is the store's record; and the session loads from the store
\* once only, which is the load of setup, so no update() ever loads.
C18_PersistedAndReadOnce ==
  /\ (/\ is_authorized
      /\ \A r \in tasks : r.op # "authorize" /\ r.pc \notin {"refresh", "save"})
       => store = token
  /\ \A r \in tasks : r.op = "update" => r.gt.load = 0

\* C19: the throttle is per holder: a step stamps the throttle of a holder,
\* or makes a holder throttled, only when it is a call of update() on that
\* very holder that runs the body, and it does so for no other holder; so
\* two holders called inside the same window each run their own fetch.
C19_ThrottlePerHolder ==
  [][ /\ \A g \in DOMAIN holders :
           /\ holders'[g].last # holders[g].last
                => holders'[g].nran = holders[g].nran + 1
           /\ (~Throttled(g) /\ Throttled(g)')
                => holders'[g].nran = holders[g].nran + 1
      /\ \A g, h \in DOMAIN holders :
           (holders'[g] # holders[g] /\ holders'[h] # holders[h] /\ g # h)
             => \A k \in {g, h} :
                  /\ holders'[k].last = holders[k].last
                  /\ holders'[k].nran = holders[k].nran
    ]_vars

\* two holders were updated at the same time and both have issued their
\* fetch; both are now throttled
C19_Witness ==
  \E g, h \in DOMAIN holders :
    /\ g # h
    /\ holders[g].nran = 1 /\ holders[h].nran = 1
    /\ holders[g].ran = holders[h].ran
    /\ Throttled(g) /\ Throttled(h)
    /\ \E r, q \in tasks :
         /\ r.op = "update" /\ r.h = g /\ r.pc = "fetch"
         /\ q.op = "update" /\ q.h = h /\ q.pc = "fetch"

\* the tokens an exchange can return
ExchangedTokens ==
  {Token(n, d + l) : n \in 2..(MaxTokens + 1), d \in 0..MaxTime, l \in Lifetimes}

\* C20: in a run that starts with no persisted token, whenever an
\* authorize() has ended after its exchange returned a token, with that
\* token saved and held by the registered session and no other coroutine
\* in flight, then eventually the session holds that token with no
\* configurator request outstanding (so that an update() fetches and
\* nothing is left asking for authorization).
C20_EventuallyAuthorized ==
  (store = None) =>
    [](\A t \in ExchangedTokens :
         (/\ ev.op = "authorize_end" /\ ev.got = Some(t)
          /\ store = Some(t) /\ token = Some(t)
          /\ hassData = 1 /\ tasks = {})
           => <>(hassData = 1 /\ token = Some(t) /\ prompts = {}))

====
